---- MODULE Spec2Model ----
(***************************************************************************)
(* TSON codec (python/tson): dumps (serializer.py), loads                  *)
(* (deserializer.py) and their helpers (utils.py).                         *)
(*                                                                         *)
(* Text and strings are sequences of one-character strings.  A value is a  *)
(* tagged pair <<tag, payload>>:                                           *)
(*   <<"null", 0>>  <<"bool", b>>  <<"int", n>>  <<"float", <<neg, m, e>>>> *)
(*   <<"str", chars>>  <<"list", <<v1, ..>>>>  <<"dict", << <<k1, v1>>, ..>>>> *)
(* a dict keeps its items in insertion order, keys are character           *)
(* sequences.  A float <<neg, D, e>> is (-1)^neg * D * 10^e, D the decimal  *)
(* digits of a natural number not divisible by 10 (zero is "0" with        *)
(* e = 0); inf and nan have D = "inf" / "nan".  <<"other", 0>> is a value   *)
(* of a host type the codec does not know (tuple, set, bytes).  A raised   *)
(* exception is the result <<"error", message>>.                           *)
(***************************************************************************)
EXTENDS Integers, Sequences, FiniteSets, TLC

\* ---------------------------------------------------------------------
\* Characters
\* ---------------------------------------------------------------------
BS == "\\"
DQ == "\""
NL == "\n"
CR == "\r"
TB == "\t"
SP == " "
\* a whitespace character (form feed) that is not in SPECIAL_CHARS
FF == "\f"

DigitChars == <<"0", "1", "2", "3", "4", "5", "6", "7", "8", "9">>
IsDigit(c) == \E i \in 1..10 : DigitChars[i] = c
DigitVal(c) == (CHOOSE i \in 1..10 : DigitChars[i] = c) - 1
DigitChar(d) == DigitChars[d + 1]

\* str.isspace() on one character
IsSpace(c) == c \in {SP, TB, NL, CR, FF}

\* str.lower() on one character (the model's only upper-case letter is E)
LowerChar(c) == IF c = "E" THEN "e" ELSE c
Lower(s) == [i \in 1..Len(s) |-> LowerChar(s[i])]

\* ---------------------------------------------------------------------
\* Python str operations used by the codec
\* ---------------------------------------------------------------------
Slice(s, a, b) == IF a > b THEN <<>> ELSE SubSeq(s, a, b)

Contains(s, c) == \E i \in 1..Len(s) : s[i] = c

\* s.startswith(c), s.endswith(c) for a one-character c
StartsWith(s, c) == Len(s) > 0 /\ s[1] = c
EndsWith(s, c) == Len(s) > 0 /\ s[Len(s)] = c

\* s[1:-1]
Interior(s) == Slice(s, 2, Len(s) - 1)

\* s.index(c): position of the first c (1-based), 0 when absent
IndexOf(s, c) ==
    IF Contains(s, c) THEN CHOOSE i \in 1..Len(s) : s[i] = c /\ \A j \in 1..(i - 1) : s[j] # c
    ELSE 0

\* s.rindex(c): position of the last c (1-based), 0 when absent
LastIndexOf(s, c) ==
    IF Contains(s, c) THEN CHOOSE i \in 1..Len(s) : s[i] = c /\ \A j \in (i + 1)..Len(s) : s[j] # c
    ELSE 0

\* s.split(c)[0]
SplitFirst(s, c) == IF Contains(s, c) THEN Slice(s, 1, IndexOf(s, c) - 1) ELSE s

\* s.strip()
Strip(s) ==
    IF \A i \in 1..Len(s) : IsSpace(s[i]) THEN <<>>
    ELSE LET a == CHOOSE i \in 1..Len(s) : ~IsSpace(s[i]) /\ \A j \in 1..(i - 1) : IsSpace(s[j])
             b == CHOOSE i \in 1..Len(s) : ~IsSpace(s[i]) /\ \A j \in (i + 1)..Len(s) : IsSpace(s[j])
         IN SubSeq(s, a, b)

RECURSIVE Join(_, _)
\* sep.join(parts)
Join(parts, sep) ==
    IF parts = <<>> THEN <<>>
    ELSE IF Len(parts) = 1 THEN parts[1]
    ELSE parts[1] \o sep \o Join(Tail(parts), sep)

\* ---------------------------------------------------------------------
\* Values
\* ---------------------------------------------------------------------
VNull == <<"null", 0>>
VBool(b) == <<"bool", b>>
VInt(n) == <<"int", n>>
VFloat(neg, D, e) == <<"float", <<neg, D, e>>>>
VStr(s) == <<"str", s>>
VList(xs) == <<"list", xs>>
VDict(items) == <<"dict", items>>
VError(msg) == <<"error", msg>>
\* a value of a type that is none of None, bool, int, float, str, dict, list
VOther == <<"other", 0>>

Tag(v) == v[1]
IsError(v) == Tag(v) = "error"
IsDict(v) == Tag(v) = "dict"
IsList(v) == Tag(v) = "list"
IsPrimitive(v) == Tag(v) \in {"null", "bool", "int", "float", "str"}
\* a float that is inf, -inf or nan
IsNonFinite(v) == Tag(v) = "float" /\ v[2][2] \in {<<"i", "n", "f">>, <<"n", "a", "n">>}

\* list(d.keys())
DictKeys(d) == [i \in 1..Len(d[2]) |-> d[2][i][1]]
HasKey(items, k) == \E i \in 1..Len(items) : items[i][1] = k
\* d.get(k): the value stored under k, Null (None) when absent
DictGet(items, k) ==
    IF HasKey(items, k) THEN items[CHOOSE i \in 1..Len(items) : items[i][1] = k][2]
    ELSE VNull
\* d[k] = v on an insertion-ordered dict: an existing key keeps its place
DictSet(items, k, v) ==
    IF HasKey(items, k)
    THEN [i \in 1..Len(items) |-> IF items[i][1] = k THEN <<k, v>> ELSE items[i]]
    ELSE Append(items, <<k, v>>)

\* ---------------------------------------------------------------------
\* Number text: str(int), str(float), int(text), float(text)
\* ---------------------------------------------------------------------
RECURSIVE NatToStr(_)
NatToStr(n) == IF n < 10 THEN <<DigitChar(n)>> ELSE NatToStr(n \div 10) \o <<DigitChar(n % 10)>>

\* str(n) for an int
IntToStr(n) == IF n < 0 THEN <<"-">> \o NatToStr(-n) ELSE NatToStr(n)

Zeros(k) == [i \in 1..k |-> "0"]

\* the exponent of repr(float): sign and at least two digits
ExpToStr(x) ==
    LET a == IF x < 0 THEN -x ELSE x
    IN (IF x < 0 THEN <<"-">> ELSE <<"+">>) \o (IF a < 10 THEN <<"0">> ELSE <<>>) \o NatToStr(a)

\* str(f) for a float (-1)^neg * D * 10^e: repr's shortest digits D, fixed
\* notation while -4 < decpt <= 16, exponent notation otherwise; inf, -inf
\* and nan are written by name
FloatToStr(f) ==
    LET neg == f[1]
        D == f[2]
        n == Len(D)
        decpt == n + f[3]
        body == IF D \in {<<"i", "n", "f">>, <<"n", "a", "n">>} THEN D
                ELSE IF D = <<"0">> THEN <<"0", ".", "0">>
                ELSE IF decpt <= -4 \/ decpt > 16
                     THEN <<D[1]>> \o (IF n > 1 THEN <<".">> \o Slice(D, 2, n) ELSE <<>>)
                          \o <<"e">> \o ExpToStr(decpt - 1)
                ELSE IF decpt <= 0 THEN <<"0", ".">> \o Zeros(-decpt) \o D
                ELSE IF decpt >= n THEN D \o Zeros(decpt - n) \o <<".", "0">>
                ELSE Slice(D, 1, decpt) \o <<".">> \o Slice(D, decpt + 1, n)
    IN (IF neg /\ D # <<"n", "a", "n">> THEN <<"-">> ELSE <<>>) \o body

\* digits with single underscores between them (the digitpart of int()/float())
IsDigitPart(x) ==
    /\ Len(x) > 0
    /\ \A i \in 1..Len(x) : IsDigit(x[i]) \/ x[i] = "_"
    /\ IsDigit(x[1]) /\ IsDigit(x[Len(x)])
    /\ \A i \in 1..(Len(x) - 1) : ~(x[i] = "_" /\ x[i + 1] = "_")

DigitsOf(x) == SelectSeq(x, IsDigit)

RECURSIVE NatOf(_)
NatOf(ds) == IF ds = <<>> THEN 0 ELSE 10 * NatOf(Slice(ds, 1, Len(ds) - 1)) + DigitVal(ds[Len(ds)])

HasSign(x) == Len(x) > 0 /\ x[1] \in {"+", "-"}
Unsigned(x) == IF HasSign(x) THEN Tail(x) ELSE x
IsNegative(x) == Len(x) > 0 /\ x[1] = "-"

\* the pieces of a float literal body: integer part, fraction, exponent
ExpIndex(x) == IndexOf(Lower(x), "e")
MantissaOf(x) == IF ExpIndex(x) = 0 THEN x ELSE Slice(x, 1, ExpIndex(x) - 1)
ExponentOf(x) == Slice(x, ExpIndex(x) + 1, Len(x))
IntPartOf(mant) == SplitFirst(mant, ".")
FracPartOf(mant) == IF Contains(mant, ".") THEN Slice(mant, IndexOf(mant, ".") + 1, Len(mant)) ELSE <<>>

IsDecimalBody(x) ==
    LET mant == MantissaOf(x)
        ip == IntPartOf(mant)
        fp == FracPartOf(mant)
    IN /\ IF Contains(mant, ".")
          THEN /\ ip = <<>> \/ IsDigitPart(ip)
               /\ fp = <<>> \/ IsDigitPart(fp)
               /\ ~(ip = <<>> /\ fp = <<>>)
          ELSE IsDigitPart(ip)
       /\ ExpIndex(x) # 0 => IsDigitPart(Unsigned(ExponentOf(x)))

NonFiniteWords == {<<"i", "n", "f">>, <<"n", "a", "n">>, <<"i", "n", "f", "i", "n", "i", "t", "y">>}

\* float(text) succeeds
IsFloatText(text) ==
    LET x == Unsigned(Strip(text))
    IN Lower(x) \in NonFiniteWords \/ IsDecimalBody(x)

\* int(text) succeeds
IsIntText(text) == IsDigitPart(Unsigned(Strip(text)))

IntOf(text) ==
    LET x == Strip(text)
        n == NatOf(DigitsOf(Unsigned(x)))
    IN IF IsNegative(x) THEN -n ELSE n

RECURSIVE StripLeadingZeros(_)
StripLeadingZeros(ds) == IF ds # <<>> /\ Head(ds) = "0" THEN StripLeadingZeros(Tail(ds)) ELSE ds

RECURSIVE Normalise(_, _)
\* the digits ds * 10^e without trailing zeros in ds
Normalise(ds, e) ==
    IF ds = <<>> THEN <<(<<"0">>), 0>>
    ELSE IF ds[Len(ds)] = "0" THEN Normalise(Slice(ds, 1, Len(ds) - 1), e + 1)
    ELSE <<ds, e>>

\* float(text) for a decimal literal within double range
FloatOf(text) ==
    LET s == Strip(text)
        x == Unsigned(s)
        mant == MantissaOf(x)
        fp == DigitsOf(FracPartOf(mant))
        all == DigitsOf(IntPartOf(mant)) \o fp
        ex == IF ExpIndex(x) = 0 THEN 0 ELSE IntOf(ExponentOf(x))
        me == Normalise(StripLeadingZeros(all), ex - Len(fp))
    IN <<IsNegative(s), me[1], me[2]>>

\* ---------------------------------------------------------------------
\* utils.py: primitive codec
\* ---------------------------------------------------------------------
SPECIAL_CHARS == {",", "|", "@", "#", "{", "}", "[", "]", NL, CR, TB, SP, DQ, "(", ")"}

\* the module-level set as the running program holds it: needs_quoting looks the
\* global up at every call
VARIABLE special_chars

looks_like_number(value) == value # <<>> /\ IsFloatText(value)

ReservedWords == {<<"t", "r", "u", "e">>, <<"f", "a", "l", "s", "e">>, <<"n", "u", "l", "l">>}

\* needs_quoting without the number test
needs_quoting_mut(value) ==
    \/ value = <<>>
    \/ value \in ReservedWords
    \/ IsSpace(value[1]) \/ IsSpace(value[Len(value)])
    \/ \E i \in 1..Len(value) : value[i] \in special_chars

needs_quoting(value) ==
    \/ value = <<>>
    \/ value \in ReservedWords
    \/ IsSpace(value[1]) \/ IsSpace(value[Len(value)])
    \/ looks_like_number(value)
    \/ \E i \in 1..Len(value) : value[i] \in special_chars

RECURSIVE Replace(_, _, _)
\* s.replace(c, r) for a one-character c
Replace(s, c, r) ==
    IF s = <<>> THEN <<>>
    ELSE (IF Head(s) = c THEN r ELSE <<Head(s)>>) \o Replace(Tail(s), c, r)

\* escape_string that doubles the backslashes last, after the other escapes
\* have written theirs
escape_string_mut(value) ==
    LET v1 == Replace(value, DQ, <<BS, DQ>>)
        v2 == Replace(v1, NL, <<BS, "n">>)
        v3 == Replace(v2, CR, <<BS, "r">>)
        v4 == Replace(v3, TB, <<BS, "t">>)
    IN Replace(v4, BS, <<BS, BS>>)

escape_string(value) ==
    LET v1 == Replace(value, BS, <<BS, BS>>)
        v2 == Replace(v1, DQ, <<BS, DQ>>)
        v3 == Replace(v2, NL, <<BS, "n">>)
        v4 == Replace(v3, CR, <<BS, "r">>)
    IN Replace(v4, TB, <<BS, "t">>)

RECURSIVE unescape_from(_, _)
unescape_from(value, i) ==
    IF i > Len(value) THEN <<>>
    ELSE IF value[i] = BS /\ i + 1 <= Len(value)
         THEN LET next_char == value[i + 1]
              IN IF next_char = BS THEN <<BS>> \o unescape_from(value, i + 2)
                 ELSE IF next_char = DQ THEN <<DQ>> \o unescape_from(value, i + 2)
                 ELSE IF next_char = "n" THEN <<NL>> \o unescape_from(value, i + 2)
                 ELSE IF next_char = "r" THEN <<CR>> \o unescape_from(value, i + 2)
                 ELSE IF next_char = "t" THEN <<TB>> \o unescape_from(value, i + 2)
                 ELSE <<value[i]>> \o unescape_from(value, i + 1)
         ELSE <<value[i]>> \o unescape_from(value, i + 1)

unescape_string(value) == unescape_from(value, 1)

Quoted(s) == <<DQ>> \o escape_string(s) \o <<DQ>>

\* format_primitive on a str
format_string(value) == IF needs_quoting(value) THEN Quoted(value) ELSE value

format_primitive(value) ==
    IF Tag(value) = "null" THEN <<"n", "u", "l", "l">>
    ELSE IF Tag(value) = "bool"
         THEN (IF value[2] THEN <<"t", "r", "u", "e">> ELSE <<"f", "a", "l", "s", "e">>)
    ELSE IF Tag(value) = "int" THEN IntToStr(value[2])
    ELSE IF Tag(value) = "float" THEN FloatToStr(value[2])
    ELSE format_string(value[2])

parse_primitive(text) ==
    LET value == Strip(text)
    IN IF value = <<>> THEN VStr(<<>>)
       ELSE IF value = <<"t", "r", "u", "e">> THEN VBool(TRUE)
       ELSE IF value = <<"f", "a", "l", "s", "e">> THEN VBool(FALSE)
       ELSE IF value = <<"n", "u", "l", "l">> THEN VNull
       ELSE IF StartsWith(value, DQ) /\ EndsWith(value, DQ) THEN VStr(unescape_string(Interior(value)))
       ELSE IF looks_like_number(value)
            THEN IF ~Contains(value, ".") /\ ~Contains(Lower(value), "e")
                 THEN (IF IsIntText(value) THEN VInt(IntOf(value)) ELSE VStr(value))
                 ELSE VFloat(FloatOf(value)[1], FloatOf(value)[2], FloatOf(value)[3])
       ELSE VStr(value)

\* ---------------------------------------------------------------------
\* utils.py: uniformity test, lexical scanner, key-schema parser
\* ---------------------------------------------------------------------
\* is_uniform_object_array comparing the keys as sets, not as ordered lists
is_uniform_object_array_mut(data) ==
    /\ Len(data) # 0
    /\ \A i \in 1..Len(data) : IsDict(data[i])
    /\ \A i \in 2..Len(data) :
          {DictKeys(data[i])[j] : j \in 1..Len(data[i][2])} = {DictKeys(data[1])[j] : j \in 1..Len(data[1][2])}

\* is_uniform_object_array on the elements of a list
is_uniform_object_array(data) ==
    /\ Len(data) # 0
    /\ \A i \in 1..Len(data) : IsDict(data[i])
    /\ \A i \in 2..Len(data) : DictKeys(data[i]) = DictKeys(data[1])

\* the scanner's locals before the first character
ScanInit ==
    [result |-> <<>>, current |-> <<>>, in_quotes |-> FALSE, escape_next |-> FALSE,
     depth_curly |-> 0, depth_square |-> 0, depth_paren |-> 0]

\* one iteration of the loop without the inside-quotes test
ScanStep_mut(st, char, delimiter) ==
    IF st.escape_next
    THEN [st EXCEPT !.current = Append(@, char), !.escape_next = FALSE]
    ELSE IF char = BS
    THEN [st EXCEPT !.current = Append(@, char), !.escape_next = TRUE]
    ELSE IF char = DQ
    THEN [st EXCEPT !.current = Append(@, char), !.in_quotes = ~@]
    ELSE IF char = "{"
    THEN [st EXCEPT !.current = Append(@, char), !.depth_curly = @ + 1]
    ELSE IF char = "}"
    THEN [st EXCEPT !.current = Append(@, char), !.depth_curly = @ - 1]
    ELSE IF char = "["
    THEN [st EXCEPT !.current = Append(@, char), !.depth_square = @ + 1]
    ELSE IF char = "]"
    THEN [st EXCEPT !.current = Append(@, char), !.depth_square = @ - 1]
    ELSE IF char = "("
    THEN [st EXCEPT !.current = Append(@, char), !.depth_paren = @ + 1]
    ELSE IF char = ")"
    THEN [st EXCEPT !.current = Append(@, char), !.depth_paren = @ - 1]
    ELSE IF char = delimiter /\ st.depth_curly = 0 /\ st.depth_square = 0 /\ st.depth_paren = 0
    THEN [st EXCEPT !.result = Append(@, Strip(st.current)), !.current = <<>>]
    ELSE [st EXCEPT !.current = Append(@, char)]

\* one iteration of split_by_delimiter's loop
ScanStep(st, char, delimiter) ==
    IF st.escape_next
    THEN [st EXCEPT !.current = Append(@, char), !.escape_next = FALSE]
    ELSE IF char = BS
    THEN [st EXCEPT !.current = Append(@, char), !.escape_next = TRUE]
    ELSE IF char = DQ
    THEN [st EXCEPT !.current = Append(@, char), !.in_quotes = ~@]
    ELSE IF st.in_quotes
    THEN [st EXCEPT !.current = Append(@, char)]
    ELSE IF char = "{"
    THEN [st EXCEPT !.current = Append(@, char), !.depth_curly = @ + 1]
    ELSE IF char = "}"
    THEN [st EXCEPT !.current = Append(@, char), !.depth_curly = @ - 1]
    ELSE IF char = "["
    THEN [st EXCEPT !.current = Append(@, char), !.depth_square = @ + 1]
    ELSE IF char = "]"
    THEN [st EXCEPT !.current = Append(@, char), !.depth_square = @ - 1]
    ELSE IF char = "("
    THEN [st EXCEPT !.current = Append(@, char), !.depth_paren = @ + 1]
    ELSE IF char = ")"
    THEN [st EXCEPT !.current = Append(@, char), !.depth_paren = @ - 1]
    ELSE IF char = delimiter /\ st.depth_curly = 0 /\ st.depth_square = 0 /\ st.depth_paren = 0
    THEN [st EXCEPT !.result = Append(@, Strip(st.current)), !.current = <<>>]
    ELSE [st EXCEPT !.current = Append(@, char)]

RECURSIVE ScanFrom(_, _, _, _)
\* the scanner's locals after the characters text[i..]
ScanFrom(st, text, i, delimiter) ==
    IF i > Len(text) THEN st
    ELSE ScanFrom(ScanStep(st, text[i], delimiter), text, i + 1, delimiter)

split_by_delimiter(text, delimiter) ==
    LET st == ScanFrom(ScanInit, text, 1, delimiter)
    IN IF st.current # <<>> THEN Append(st.result, Strip(st.current)) ELSE st.result

\* a nested schema: None, or the list of its key tokens
NoSchema == <<"none", <<>>>>
Schema(keys) == <<"keys", keys>>
\* `if schema:` is true of a non-empty key list only
SchemaIsTruthy(schema) == schema[1] = "keys" /\ schema[2] # <<>>

\* parse_key_schema: [name, schema], err set when it raises ValueError
parse_key_schema(token) ==
    LET key_string == Strip(token)
        paren_idx == IndexOf(key_string, "(")
        raw_name == Strip(Slice(key_string, 1, paren_idx - 1))
        key_name == IF StartsWith(raw_name, DQ) /\ EndsWith(raw_name, DQ)
                    THEN unescape_string(Interior(raw_name))
                    ELSE raw_name
        schema_raw == Strip(Slice(key_string, paren_idx + 1, Len(key_string) - 1))
        schema_str == IF StartsWith(schema_raw, "@") THEN Tail(schema_raw) ELSE schema_raw
    IN IF StartsWith(key_string, DQ) /\ EndsWith(key_string, DQ)
       THEN [name |-> unescape_string(Interior(key_string)), schema |-> NoSchema, err |-> FALSE]
       ELSE IF ~Contains(key_string, "(")
       THEN [name |-> key_string, schema |-> NoSchema, err |-> FALSE]
       ELSE IF ~EndsWith(key_string, ")")
       THEN [name |-> key_name, schema |-> NoSchema, err |-> TRUE]
       ELSE [name |-> key_name, schema |-> Schema(split_by_delimiter(schema_str, ",")), err |-> FALSE]

RECURSIVE build_schema_map_from(_, _, _)
build_schema_map_from(keys, i, schema_map) ==
    IF i > Len(keys) THEN schema_map
    ELSE build_schema_map_from(keys, i + 1,
            DictSet(schema_map, parse_key_schema(keys[i]).name, parse_key_schema(keys[i]).schema))

\* build_schema_map: the items of the name -> schema dict
build_schema_map(keys) == build_schema_map_from(keys, 1, <<>>)

\* build_schema_map raises when parse_key_schema raises on one of the keys
build_schema_map_raises(keys) == \E i \in 1..Len(keys) : parse_key_schema(keys[i]).err

\* schema_map.get(field_name)
schema_map_get(schema_map, field_name) ==
    IF HasKey(schema_map, field_name) THEN DictGet(schema_map, field_name) ELSE NoSchema

\* ---------------------------------------------------------------------
\* serializer.py
\* ---------------------------------------------------------------------
\* format_key that never quotes
format_key_mut(key) == key

\* a key as the encoder writes it: quoted and escaped when needs_quoting
format_key(key) == IF needs_quoting(key) THEN Quoted(key) ELSE key

\* detect_nested_schemas for one key without the comparison of the key lists
is_nested_uniform_mut(arr, key) ==
    LET values == [i \in 1..Len(arr) |-> DictGet(arr[i][2], key)]
    IN /\ \A i \in 1..Len(values) : IsDict(values[i])
       /\ Len(values) # 0

\* detect_nested_schemas for one key: every row's value is a dict and all
\* those dicts have the key list of the first
is_nested_uniform(arr, key) ==
    LET values == [i \in 1..Len(arr) |-> DictGet(arr[i][2], key)]
    IN /\ \A i \in 1..Len(values) : IsDict(values[i])
       /\ Len(values) # 0
       /\ \A i \in 2..Len(values) : DictKeys(values[i]) = DictKeys(values[1])

RECURSIVE detect_nested_schemas_from(_, _, _, _)
detect_nested_schemas_from(arr, keys, i, nested_schemas) ==
    IF i > Len(keys) THEN nested_schemas
    ELSE detect_nested_schemas_from(arr, keys, i + 1,
            IF is_nested_uniform(arr, keys[i])
            THEN DictSet(nested_schemas, keys[i], DictKeys(DictGet(arr[1][2], keys[i])))
            ELSE nested_schemas)

\* detect_nested_schemas: the items of the key -> first_keys dict
detect_nested_schemas(arr, keys) == detect_nested_schemas_from(arr, keys, 1, <<>>)

\* one header entry of serialize_tabular
format_header_key(key, nested_schemas) ==
    IF HasKey(nested_schemas, key)
    THEN LET schema_keys == DictGet(nested_schemas, key)
             formatted_schema_keys == [j \in 1..Len(schema_keys) |-> format_key(schema_keys[j])]
         IN format_key(key) \o <<"(", "@">> \o Join(formatted_schema_keys, <<",">>) \o <<")">>
    ELSE format_key(key)

\* the result of a call that raised (TypeError) instead of returning text
Raised(x) == x # <<>> /\ x[1] = "error"

\* prefix + sep.join(parts) + suffix; an exception raised while a part was
\* serialized leaves the caller: the first one raised
Emit(prefix, parts, sep, suffix) ==
    IF \E i \in 1..Len(parts) : Raised(parts[i])
    THEN parts[CHOOSE i \in 1..Len(parts) : Raised(parts[i]) /\ \A j \in 1..(i - 1) : ~Raised(parts[j])]
    ELSE prefix \o Join(parts, sep) \o suffix

RECURSIVE serialize_value(_)
RECURSIVE serialize_object(_)
RECURSIVE serialize_array(_)
RECURSIVE serialize_tabular(_)
RECURSIVE serialize_schematized_object(_, _)

serialize_value(value) ==
    IF IsPrimitive(value) THEN format_primitive(value)
    ELSE IF IsDict(value) THEN serialize_object(value[2])
    ELSE IF IsList(value)
         THEN (IF is_uniform_object_array(value[2]) THEN serialize_tabular(value[2])
               ELSE serialize_array(value[2]))
    ELSE VError("Cannot serialize type")

\* serialize_object on the items of a dict
serialize_object(obj) ==
    IF obj = <<>> THEN <<"{", "@", "}">>
    ELSE LET key_parts == [i \in 1..Len(obj) |-> format_key(obj[i][1])]
             value_parts == [i \in 1..Len(obj) |-> serialize_value(obj[i][2])]
         IN Emit(<<"{", "@">> \o Join(key_parts, <<",">>) \o <<"|">>, value_parts, <<",">>, <<"}">>)

\* serialize_array on the elements of a list
serialize_array(arr) ==
    IF arr = <<>> THEN <<"[", "]">>
    ELSE Emit(<<"[">>, [i \in 1..Len(arr) |-> serialize_value(arr[i])], <<",">>, <<"]">>)

\* serialize_tabular that declares the number of keys as the row count
serialize_tabular_mut(arr) ==
    LET keys == DictKeys(arr[1])
        nested_schemas == detect_nested_schemas(arr, keys)
        key_parts == [i \in 1..Len(keys) |-> format_header_key(keys[i], nested_schemas)]
        row(obj) == Emit(<<>>,
                         [i \in 1..Len(keys) |->
                            IF HasKey(nested_schemas, keys[i])
                            THEN serialize_schematized_object(DictGet(obj[2], keys[i])[2],
                                                              DictGet(nested_schemas, keys[i]))
                            ELSE serialize_value(DictGet(obj[2], keys[i]))],
                         <<",">>, <<>>)
        row_parts == [r \in 1..Len(arr) |-> row(arr[r])]
    IN Emit(<<"{", "@">> \o Join(key_parts, <<",">>) \o <<"#">> \o IntToStr(Len(keys)) \o <<"|">>,
            row_parts, <<"|">>, <<"}">>)

\* serialize_tabular on the elements of a uniform list
serialize_tabular(arr) ==
    LET keys == DictKeys(arr[1])
        count == Len(arr)
        nested_schemas == detect_nested_schemas(arr, keys)
        key_parts == [i \in 1..Len(keys) |-> format_header_key(keys[i], nested_schemas)]
        row(obj) == Emit(<<>>,
                         [i \in 1..Len(keys) |->
                            IF HasKey(nested_schemas, keys[i])
                            THEN serialize_schematized_object(DictGet(obj[2], keys[i])[2],
                                                              DictGet(nested_schemas, keys[i]))
                            ELSE serialize_value(DictGet(obj[2], keys[i]))],
                         <<",">>, <<>>)
        row_parts == [r \in 1..Len(arr) |-> row(arr[r])]
    IN Emit(<<"{", "@">> \o Join(key_parts, <<",">>) \o <<"#">> \o IntToStr(count) \o <<"|">>,
            row_parts, <<"|">>, <<"}">>)

\* serialize_schematized_object on the items of a dict
serialize_schematized_object(obj, schema) ==
    IF obj = <<>> THEN <<"{", "}">>
    ELSE Emit(<<"{">>, [i \in 1..Len(schema) |-> serialize_value(DictGet(obj, schema[i]))], <<",">>, <<"}">>)

dumps(data) == serialize_value(data)

\* ---------------------------------------------------------------------
\* deserializer.py
\* ---------------------------------------------------------------------
AnyError(results) == \E i \in 1..Len(results) : IsError(results[i])
\* the exception that leaves a loop over results: the first one raised
FirstError(results) ==
    results[CHOOSE i \in 1..Len(results) : IsError(results[i]) /\ \A j \in 1..(i - 1) : ~IsError(results[j])]

\* a loop that keeps going when an item failed to parse
ListResult_mut(results) == VList(results)

\* a loop that appends each parsed item: the first exception leaves it
ListResult(results) == IF AnyError(results) THEN FirstError(results) ELSE VList(results)

\* the rows of a table, checked against the declared count once all are parsed
CountedResult(result, has_count, expected_count) ==
    IF AnyError(result) THEN FirstError(result)
    ELSE IF has_count /\ Len(result) # expected_count THEN VError("Row count mismatch")
    ELSE VList(result)

RECURSIVE BuildObj(_, _, _, _)
\* obj[field_name] = value for each pair of zip(field_names, values), in order
BuildObj(field_names, values, i, obj) ==
    IF i > Len(field_names) THEN obj
    ELSE BuildObj(field_names, values, i + 1, DictSet(obj, field_names[i], values[i]))

\* a loop that stores each parsed field: the first exception leaves it
DictResult(field_names, fields) ==
    IF AnyError(fields) THEN FirstError(fields) ELSE VDict(BuildObj(field_names, fields, 1, <<>>))

\* field_names = [k.split('(')[0] for k in keys]
FieldNames(keys) == [i \in 1..Len(keys) |-> SplitFirst(keys[i], "(")]

\* parse_keys: [keys, has_count, count], err set when it raises ValueError
parse_keys(keys_str) ==
    IF Contains(keys_str, "#")
    THEN LET idx == LastIndexOf(keys_str, "#")
             keys_part == Slice(keys_str, 1, idx - 1)
             count_part == Strip(Slice(keys_str, idx + 1, Len(keys_str)))
         IN IF IsIntText(count_part)
            THEN [keys |-> split_by_delimiter(keys_part, ","), has_count |-> TRUE,
                  count |-> IntOf(count_part), err |-> FALSE]
            ELSE [keys |-> <<>>, has_count |-> FALSE, count |-> 0, err |-> TRUE]
    ELSE [keys |-> split_by_delimiter(keys_str, ","), has_count |-> FALSE, count |-> 0, err |-> FALSE]

RECURSIVE parse_value(_)
RECURSIVE parse_object(_)
RECURSIVE parse_keyed_object(_)
RECURSIVE parse_single_object(_, _, _)
RECURSIVE parse_tabular_array(_, _, _, _, _)
RECURSIVE parse_schematized_value(_, _)
RECURSIVE parse_array(_)

parse_value(raw) ==
    LET text == Strip(raw)
    IN IF text = <<>> THEN VStr(<<>>)
       ELSE IF text[1] = "{" THEN parse_object(text)
       ELSE IF text[1] = "[" THEN parse_array(text)
       ELSE parse_primitive(text)

parse_object(raw) ==
    LET text == Strip(raw)
        content == Strip(Interior(text))
    IN IF ~StartsWith(text, "{") \/ ~EndsWith(text, "}") THEN VError("Invalid object format")
       ELSE IF content = <<"@">> \/ content = <<>> THEN VDict(<<>>)
       ELSE IF StartsWith(content, "@") THEN parse_keyed_object(Tail(content))
       ELSE LET values == split_by_delimiter(content, ",")
                parsed_values == [i \in 1..Len(values) |-> parse_value(values[i])]
            IN ListResult(parsed_values)

\* parse_keyed_object with is_tabular = has_count alone
parse_keyed_object_mut(content) ==
    LET parts == split_by_delimiter(content, "|")
        header == parse_keys(parts[1])
        keys == header.keys
        schema_map == build_schema_map(keys)
        field_names == FieldNames(keys)
        value_parts == Tail(parts)
    IN IF Len(parts) < 1 THEN VError("Invalid object format: missing keys")
       ELSE IF header.err THEN VError("Invalid row count")
       ELSE IF build_schema_map_raises(keys) THEN VError("Invalid key schema syntax")
       ELSE IF Len(parts) = 1 THEN VError("Invalid object format: missing values")
       ELSE IF header.has_count
            THEN parse_tabular_array(field_names, value_parts, schema_map, header.has_count, header.count)
            ELSE parse_single_object(field_names, value_parts[1], schema_map)

parse_keyed_object(content) ==
    LET parts == split_by_delimiter(content, "|")
        header == parse_keys(parts[1])
        keys == header.keys
        schema_map == build_schema_map(keys)
        field_names == FieldNames(keys)
        value_parts == Tail(parts)
        is_tabular == header.has_count \/ Len(value_parts) > 1
    IN IF Len(parts) < 1 THEN VError("Invalid object format: missing keys")
       ELSE IF header.err THEN VError("Invalid row count")
       ELSE IF build_schema_map_raises(keys) THEN VError("Invalid key schema syntax")
       ELSE IF Len(parts) = 1 THEN VError("Invalid object format: missing values")
       ELSE IF is_tabular
            THEN parse_tabular_array(field_names, value_parts, schema_map, header.has_count, header.count)
            ELSE parse_single_object(field_names, value_parts[1], schema_map)

parse_single_object(field_names, values_str, schema_map) ==
    LET values == split_by_delimiter(values_str, ",")
        fields == [i \in 1..Len(values) |->
                     LET schema == schema_map_get(schema_map, field_names[i])
                     IN IF SchemaIsTruthy(schema)
                        THEN parse_schematized_value(values[i], schema[2])
                        ELSE parse_value(values[i])]
    IN IF Len(values) # Len(field_names) THEN VError("Field count mismatch")
       ELSE DictResult(field_names, fields)

\* expected_count is None when has_count is FALSE
parse_tabular_array(field_names, row_parts, schema_map, has_count, expected_count) ==
    LET rows == SelectSeq(row_parts, LAMBDA row_str : Strip(row_str) # <<>>)
        result == [i \in 1..Len(rows) |-> parse_single_object(field_names, rows[i], schema_map)]
    IN CountedResult(result, has_count, expected_count)

parse_schematized_value(raw, schema) ==
    LET value_str == Strip(raw)
        content == Strip(Interior(value_str))
        values == split_by_delimiter(content, ",")
        nested_schema_map == build_schema_map(schema)
        field_names == FieldNames(schema)
        fields == [i \in 1..Len(values) |->
                     LET nested_schema == schema_map_get(nested_schema_map, field_names[i])
                     IN IF SchemaIsTruthy(nested_schema)
                        THEN parse_schematized_value(values[i], nested_schema[2])
                        ELSE parse_value(values[i])]
    IN IF ~StartsWith(value_str, "{") \/ ~EndsWith(value_str, "}")
       THEN VError("Schematized value must be wrapped in braces")
       ELSE IF content = <<>> THEN VDict(<<>>)
       ELSE IF Len(values) # Len(schema) THEN VError("Schema mismatch")
       ELSE IF build_schema_map_raises(schema) THEN VError("Invalid key schema syntax")
       ELSE DictResult(field_names, fields)

parse_array(raw) ==
    LET text == Strip(raw)
        content == Strip(Interior(text))
        values == SelectSeq(split_by_delimiter(content, ","), LAMBDA value_str : Strip(value_str) # <<>>)
        result == [i \in 1..Len(values) |-> parse_value(values[i])]
    IN IF ~StartsWith(text, "[") \/ ~EndsWith(text, "]") THEN VError("Invalid array format")
       ELSE IF content = <<>> THEN VList(<<>>)
       ELSE ListResult(result)

loads(raw) ==
    LET s == Strip(raw)
    IN IF s = <<>> THEN VNull ELSE parse_value(s)

\* ---------------------------------------------------------------------
\* Inputs
\* ---------------------------------------------------------------------
\* the float (-1)^neg * m * 10^e
F(neg, m, e) == VFloat(neg, NatToStr(m), e)

\* bounds of the model
MaxStrLen == 2
MaxRows == 2

\* the characters of the strings that are enumerated exhaustively
StrChars == {"a", "n", "1", ".", "-", "e", ",", "|", "#", "(", DQ, BS, SP, NL}

Strings == UNION {[1..n -> StrChars] : n \in 0..MaxStrLen}

\* further strings: the other structural and whitespace characters, reserved
\* words, number-like text
WordStrings ==
    {<<"@">>, <<"{">>, <<"}">>, <<"[">>, <<"]">>, <<")">>, <<TB>>, <<CR>>, <<FF>>, <<"_">>,
     <<"a", "@">>, <<"a", "{">>, <<"a", "}">>, <<"a", "[">>, <<"a", "]">>, <<"a", ")">>,
     <<"a", TB, "b">>, <<"a", CR, "b">>, <<"a", NL, "b">>, <<"a", FF, "b">>, <<FF, "a">>, <<"a", FF>>,
     <<"t", "r", "u", "e">>, <<"f", "a", "l", "s", "e">>, <<"n", "u", "l", "l">>,
     <<"t", "r", "u">>, <<"i", "n", "f">>, <<"n", "a", "n">>, <<"-", "i", "n", "f">>,
     <<"1", "0", "0", "0", "1">>, <<"1", ".", "0">>, <<"1", "e", "5">>, <<"1", "E", "5">>,
     <<"-", "1", ".", "5">>, <<"+", "1">>, <<"1", "_", "0">>, <<"1", "_", "_", "0">>,
     <<"1", ".", "0", ".">>, <<"a", " ", "b">>, <<"a", BS, "n", "b">>, <<"a", BS, DQ, " ">>}

Ints == {0, 1, 7, 42, 10001, -1, -42}

\* 0.0, -0.0, 1.0, 1.5, -2.5, 100.0, 0.001, 1e-05, 1.5e-07, 1e+16, 1.25e+17, 1000000000000000.0
Floats ==
    {F(FALSE, 0, 0), F(TRUE, 0, 0), F(FALSE, 1, 0), F(FALSE, 15, -1), F(TRUE, 25, -1),
     F(FALSE, 1, 2), F(FALSE, 1, -3), F(FALSE, 1, -5), F(FALSE, 15, -8), F(FALSE, 1, 16),
     F(FALSE, 125, 15), F(FALSE, 1, 15)}

Primitives ==
    {VNull, VBool(TRUE), VBool(FALSE)}
    \cup {VInt(n) : n \in Ints}
    \cup Floats
    \cup {VStr(s) : s \in Strings \cup WordStrings}

\* a dict of one and of two items
D1(k, v) == VDict(<< <<k, v>> >>)
D2(k1, v1, k2, v2) == VDict(<< <<k1, v1>>, <<k2, v2>> >>)

\* field values of the enumerated objects
Leaves ==
    {VNull, VBool(TRUE), VInt(1), VInt(10001), F(FALSE, 15, -1), F(FALSE, 1, 0),
     VStr(<<"x">>), VStr(<<"1">>), VStr(<<"1", ".", "0">>), VStr(<<>>), VStr(<<"a", ",", "b">>),
     VStr(<<"t", "r", "u", "e">>), VList(<<>>), VList(<<VInt(1), VStr(<<"1">>)>>), VDict(<<>>)}

\* keys that are written bare and keys that need quoting
PlainKeys == {<<"a">>, <<"b">>}
QuotedKeys ==
    {<<"a", ",", "b">>, <<"w", "|", "p">>, <<"a", "@">>, <<"a", " ", "b">>, <<"f", "(", ")">>,
     <<"(", "l">>, <<"t", ")">>, <<"k", "#", "1">>, <<"1">>, <<>>}
Keys == PlainKeys \cup QuotedKeys

\* objects: one key with any leaf, two keys in both orders
Objects ==
    {VDict(<<>>)}
    \cup {D1(k, v) : k \in Keys, v \in Leaves}
    \cup UNION {{D2(k1, v, k2, VInt(2)) : k2 \in PlainKeys \ {k1}, v \in Leaves} : k1 \in Keys}
    \cup UNION {{D2(k2, VInt(2), k1, v) : k2 \in PlainKeys \ {k1}, v \in Leaves} : k1 \in Keys}

\* sub-objects of the rows of a list: same keys, other order, other key,
\* deeper nesting, a key that needs quoting
SubObjects ==
    {VDict(<<>>), D1(<<"c">>, VInt(1)), D1(<<"d">>, VInt(1)),
     D2(<<"c">>, VInt(1), <<"d">>, VInt(2)), D2(<<"d">>, VInt(2), <<"c">>, VInt(1)),
     D1(<<"c">>, D1(<<"d">>, VInt(1))), D1(<<"c">>, D1(<<"d">>, VInt(2))),
     D1(<<"c", ",", "d">>, VInt(1))}

\* the elements of the enumerated lists
ListElems ==
    {VInt(1), VStr(<<"1">>), VDict(<<>>),
     D1(<<"a">>, VInt(1)), D1(<<"a">>, VStr(<<"1">>)), D1(<<"b">>, VInt(1)),
     D2(<<"a">>, VInt(1), <<"b">>, VInt(2)), D2(<<"b">>, VInt(2), <<"a">>, VInt(1)),
     D1(<<"k", "#">>, VInt(1)), D1(<<"f", "(">>, D1(<<"c">>, VInt(1)))}
    \cup {D1(<<"a">>, o) : o \in SubObjects}

Lists == UNION {{VList(xs) : xs \in [1..n -> ListElems]} : n \in 0..MaxRows}

\* further lists and objects: lists as fields and as elements, floats and
\* strings among the elements, rows whose keys need quoting
Nested ==
    {D1(<<"a">>, VList(<<D1(<<"b">>, VInt(1)), D1(<<"b">>, VInt(2))>>)),
     D1(<<"a">>, VList(<<D1(<<"b">>, D1(<<"c">>, VInt(1)))>>)),
     VList(<<VList(<<VInt(1), VInt(2)>>), VList(<<D1(<<"a">>, VInt(1))>>)>>),
     VList(<<VNull, VBool(FALSE), F(FALSE, 1, -5), VStr(<<>>), VStr(<<"x">>), VList(<<>>)>>),
     VList(<<D1(<<"a">>, F(FALSE, 15, -1)), D1(<<"a">>, F(FALSE, 1, 16))>>),
     VList(<<D1(<<"a", ",", "b">>, VInt(1)), D1(<<"a", ",", "b">>, VInt(2))>>),
     VList(<<D1(<<"a", " ", "b">>, D1(<<"c">>, VInt(1))), D1(<<"a", " ", "b">>, D1(<<"c">>, VInt(2)))>>),
     VList(<<D1(<<"a">>, D1(<<"c", "|">>, VInt(1))), D1(<<"a">>, D1(<<"c", "|">>, VInt(2)))>>),
     VList(<<D1(<<"a">>, D1(<<"c", "(">>, VInt(1))), D1(<<"a">>, D1(<<"c", "(">>, VInt(2)))>>),
     VList(<<D1(<<"a">>, D1(<<"c">>, D1(<<"d">>, VInt(1)))), D1(<<"a">>, D1(<<"c">>, D1(<<"e">>, VInt(1))))>>),
     VList(<<D1(<<"a">>, D1(<<"c">>, D1(<<"d">>, D1(<<"e">>, VInt(1))))),
             D1(<<"a">>, D1(<<"c">>, D1(<<"d">>, D1(<<"e">>, VInt(2)))))>>)}

\* strings with backslashes as fields and elements next to other fields and
\* elements: inside, doubled, before n, as the last character, with a
\* character that makes the encoder quote the string
Backslashes ==
    {VDict(<< <<(<<"p">>), VStr(<<"C", ":", BS, "U", BS, "f">>)>>,
              <<(<<"e">>), VStr(<<"l", BS, "n", "t">>)>>,
              <<(<<"d">>), VStr(<<"a", BS, BS, "b">>)>> >>),
     VList(<<VStr(<<"a", BS, "b">>), VStr(<<"c">>)>>),
     VList(<<VStr(<<"a", BS>>), VStr(<<"b">>)>>),
     VList(<<VStr(<<"b">>), VStr(<<"a", BS>>)>>),
     VList(<<VStr(<<BS>>), VInt(1)>>),
     VList(<<VStr(<<"a", " ", "b", BS>>), VStr(<<"c">>)>>),
     VList(<<VStr(<<BS, DQ>>), VStr(<<"b">>)>>),
     D2(<<"a">>, VStr(<<"x", BS>>), <<"b">>, VInt(2)),
     D2(<<"a">>, VInt(1), <<"b">>, VStr(<<"x", BS>>)),
     D2(<<"a">>, VStr(<<"x", BS, BS>>), <<"b">>, VInt(2)),
     VList(<<D1(<<"a">>, VStr(<<"x", BS>>)), D1(<<"a">>, VStr(<<"y">>))>>),
     VList(<<D2(<<"a">>, VStr(<<"x", BS>>), <<"b">>, VInt(1)), D2(<<"a">>, VStr(<<"y">>), <<"b">>, VInt(2))>>)}

\* values outside the value model: non-finite floats and values of an
\* unknown host type, at the top level and inside lists and dicts
Inf == VFloat(FALSE, <<"i", "n", "f">>, 0)
NegInf == VFloat(TRUE, <<"i", "n", "f">>, 0)
NaN == VFloat(FALSE, <<"n", "a", "n">>, 0)
Unsupported ==
    {VOther, Inf, NegInf, NaN,
     VList(<<VOther>>), VList(<<VInt(1), VOther>>), VList(<<VOther, VOther>>), VList(<<Inf>>),
     VList(<<VInt(1), NaN>>),
     D1(<<"a">>, VOther), D2(<<"a">>, VInt(1), <<"b">>, VOther), D1(<<"a">>, NaN), D1(<<"a">>, NegInf),
     D1(<<"a">>, VList(<<VOther>>)), VList(<<VList(<<VOther>>)>>),
     VList(<<D1(<<"a">>, VOther)>>), VList(<<D1(<<"a">>, VInt(1)), D1(<<"a">>, VOther)>>),
     VList(<<D1(<<"a">>, Inf), D1(<<"a">>, VInt(1))>>),
     VList(<<D1(<<"a">>, D1(<<"c">>, VInt(1))), D1(<<"a">>, D1(<<"c">>, VOther))>>)}

Values == Primitives \cup Objects \cup Lists \cup Nested \cup Backslashes \cup Unsupported

\* ---------------------------------------------------------------------
\* Inputs of the decoder: texts that no encoder need have written
\* ---------------------------------------------------------------------
MaxTextLen == 3
MaxTextRows == 2
MaxCells == 2

\* every text of up to MaxTextLen characters over the structural characters,
\* a letter and a digit
TextChars == {"{", "}", "[", "]", "@", "|", ",", "#", "(", DQ, "a", "1"}
ShortTexts == UNION {[1..n -> TextChars] : n \in 0..MaxTextLen}

\* {@k1,k2#N|c,c|c,c}: the key tokens, the count suffix and the rows of cells
KeyedText(keys, count, rows) ==
    <<"{", "@">> \o Join(keys, <<",">>) \o count \o <<"|">>
    \o Join([r \in 1..Len(rows) |-> Join(rows[r], <<",">>)], <<"|">>) \o <<"}">>

\* rows of plain cells under one or two plain keys, with and without a count
FlatKeys == {<< <<"a">> >>, << <<"i", "d">>, <<"n">> >>}
Counts == {<<>>, <<"#", "0">>, <<"#", "1">>, <<"#", "2">>, <<"#", "3">>}
FlatRows == {<<>>, << <<"1">> >>, << <<"1">>, <<"A">> >>, << <<"2">>, <<"B">>, <<"e">> >>}
FlatRowSeqs == UNION {[1..n -> FlatRows] : n \in 0..MaxTextRows}
FlatTexts == {KeyedText(k, c, rows) : k \in FlatKeys, c \in Counts, rows \in FlatRowSeqs}

\* a nested schema as a tree: a sequence of <<name, sub>>, sub the schema of
\* the name's own nested keys, <<>> when it has none
Leaf(name) == <<name, <<>>>>
Sub(name, schema) == <<name, schema>>
SchemaTrees ==
    {<<Leaf(<<"b">>)>>,
     <<Leaf(<<"b">>), Leaf(<<"c">>)>>,
     <<Sub(<<"b">>, <<Leaf(<<"c">>)>>)>>,
     <<Sub(<<"b">>, <<Leaf(<<"c">>), Leaf(<<"d">>)>>)>>,
     <<Leaf(<<"z">>), Sub(<<"c">>, <<Leaf(<<"l">>)>>)>>,
     <<Leaf(<<"c", ",", "d">>)>>,
     <<Leaf(<<"b">>), Leaf(<<"c", " ", "d">>)>>}

RECURSIVE SchemaKeyText(_)
\* name, or name(@k1,k2) with the nested keys written the same way; a name
\* is quoted when needs_quoting
SchemaKeyText(entry) ==
    IF entry[2] = <<>> THEN format_key(entry[1])
    ELSE format_key(entry[1]) \o <<"(", "@">>
         \o Join([i \in 1..Len(entry[2]) |-> SchemaKeyText(entry[2][i])], <<",">>) \o <<")">>

\* the content of a cell: tokens <<"tok", text>> and braced groups
\* <<"grp", items>>
Tok(text) == <<"tok", text>>
Grp(items) == <<"grp", items>>
CellItems ==
    {Tok(<<"1">>), Tok(<<"1", "0", "0", "0", "1">>), Tok(<<DQ, "1", "0", "0", "0", "1", DQ>>), Tok(<<"x">>),
     Grp(<<>>), Grp(<<Tok(<<"1">>)>>), Grp(<<Tok(<<"1">>), Tok(<<"2">>)>>)}
CellContents == UNION {[1..n -> CellItems] : n \in 0..MaxCells}

RECURSIVE ItemText(_)
\* a token as it stands, a group as {item,item}
ItemText(item) ==
    IF item[1] = "tok" THEN item[2]
    ELSE <<"{">> \o Join([i \in 1..Len(item[2]) |-> ItemText(item[2][i])], <<",">>) \o <<"}">>

\* {@a(@schema)|{items}} and {@a(@schema)#1|{items}}
SchemaText(schema, count, items) ==
    KeyedText(<<SchemaKeyText(Sub(<<"a">>, schema))>>, count, << <<ItemText(Grp(items))>> >>)
SchemaCounts == {<<>>, <<"#", "1">>}
SchemaTexts == {SchemaText(sch, c, items) : sch \in SchemaTrees, c \in SchemaCounts, items \in CellContents}

Texts == ShortTexts \cup FlatTexts \cup SchemaTexts

\* ---------------------------------------------------------------------
\* The codec in use: a value is encoded, the text decoded, the result
\* encoded again
\* ---------------------------------------------------------------------
VARIABLES data, encoded, decoded, reencoded, pc

vars == <<data, encoded, decoded, reencoded, pc, special_chars>>

Init ==
    /\ special_chars = SPECIAL_CHARS
    /\ data \in Values
    /\ encoded = <<>>
    /\ decoded = VNull
    /\ reencoded = <<>>
    /\ pc = "start"

\* dumps that writes the module-level set while it runs
Dumps_mut ==
    /\ pc = "start"
    /\ encoded' = dumps(data)
    /\ pc' = IF Raised(dumps(data)) THEN "raised" ELSE "encoded"
    /\ special_chars' = special_chars \ {","}
    /\ UNCHANGED <<data, decoded, reencoded>>

\* encoded = tson.dumps(data); a raised TypeError ends the run
Dumps ==
    /\ pc = "start"
    /\ encoded' = dumps(data)
    /\ pc' = IF Raised(dumps(data)) THEN "raised" ELSE "encoded"
    /\ UNCHANGED <<data, decoded, reencoded, special_chars>>

\* decoded = tson.loads(encoded); a raised ValueError ends the run
Loads ==
    /\ pc = "encoded"
    /\ decoded' = loads(encoded)
    /\ pc' = IF IsError(loads(encoded)) THEN "failed" ELSE "decoded"
    /\ UNCHANGED <<data, encoded, reencoded, special_chars>>

\* reencoded = tson.dumps(decoded)
Redumps ==
    /\ pc = "decoded"
    /\ reencoded' = dumps(decoded)
    /\ pc' = "reencoded"
    /\ UNCHANGED <<data, encoded, decoded, special_chars>>

Next == Dumps \/ Loads \/ Redumps

Spec == Init /\ [][Next]_vars

\* the decoder given a text from anywhere: loads, then dumps of what it returned
InitLoads ==
    /\ special_chars = SPECIAL_CHARS
    /\ data = VNull
    /\ encoded \in Texts
    /\ decoded = VNull
    /\ reencoded = <<>>
    /\ pc = "encoded"

NextLoads == Loads \/ Redumps

SpecLoads == InitLoads /\ [][NextLoads]_vars

\* ---------------------------------------------------------------------
\* The helpers of utils.py called on their own, each on a text of its kind
\* ---------------------------------------------------------------------
MaxTokenLen == 4

\* texts for the scanner: backslash, quote, both delimiters, one bracket of each kind
ScanChars == {BS, DQ, ",", "|", "{", "]", "("}
ScanTexts == UNION {[1..n -> ScanChars] : n \in 0..MaxTokenLen}

\* strings to escape: every character escape_string rewrites and the letters
\* its escapes end with
EscapeChars == {BS, DQ, NL, CR, TB, "n", "r", "t"}
EscapeStrings == UNION {[1..n -> EscapeChars] : n \in 0..MaxTextLen}

\* tokens for parse_primitive
PrimitiveTokens ==
    Strings \cup WordStrings
    \cup {<<DQ, "a", BS, DQ>>, <<DQ, "a", DQ, "b", DQ>>, <<SP, DQ, "a", DQ, SP>>, <<DQ, BS, "n", DQ>>}

\* key tokens for parse_key_schema
KeyChars == {"a", DQ, "(", ")", "@", ","}
KeyTokens ==
    UNION {[1..n -> KeyChars] : n \in 0..MaxTokenLen}
    \cup {<<"a", "(", "@", "b", ",", "c", ")">>, <<DQ, "a", "(", "b", DQ>>,
          <<DQ, "a", DQ, "(", "@", "b", ")">>, <<SP, "a", SP, "(", "@", SP, "b", SP, ")", SP>>,
          <<"a", "(", "@", "b", "(", "@", "c", ",", "d", ")", ",", "e", ")">>,
          <<"a", "(", DQ, "b", ",", "c", DQ, ")">>, <<DQ, "a", BS, DQ>>, <<"a", "(", "@", "b">>}

InitUtils ==
    /\ special_chars = SPECIAL_CHARS
    /\ data = VNull
    /\ encoded \in ScanTexts \cup EscapeStrings \cup PrimitiveTokens \cup KeyTokens
    /\ decoded = VNull
    /\ reencoded = <<>>
    /\ pc = "text"

\* decoded = split_by_delimiter(encoded, d), d kept in reencoded
SplitByDelimiter ==
    /\ pc = "text" /\ encoded \in ScanTexts
    /\ \E delimiter \in {",", "|"} :
          /\ decoded' = <<"segments", split_by_delimiter(encoded, delimiter)>>
          /\ reencoded' = <<delimiter>>
    /\ pc' = "split"
    /\ UNCHANGED <<data, encoded, special_chars>>

\* reencoded = escape_string(encoded)
EscapeString ==
    /\ pc = "text" /\ encoded \in EscapeStrings
    /\ reencoded' = escape_string(encoded)
    /\ pc' = "escaped"
    /\ UNCHANGED <<data, encoded, decoded, special_chars>>

\* decoded = unescape_string(reencoded)
UnescapeString ==
    /\ pc = "escaped"
    /\ decoded' = VStr(unescape_string(reencoded))
    /\ pc' = "unescaped"
    /\ UNCHANGED <<data, encoded, reencoded, special_chars>>

\* decoded = parse_primitive(encoded)
ParsePrimitive ==
    /\ pc = "text" /\ encoded \in PrimitiveTokens
    /\ decoded' = parse_primitive(encoded)
    /\ pc' = "primitive"
    /\ UNCHANGED <<data, encoded, reencoded, special_chars>>

\* decoded = parse_key_schema(encoded)
ParseKeySchema ==
    /\ pc = "text" /\ encoded \in KeyTokens
    /\ decoded' = parse_key_schema(encoded)
    /\ pc' = "key"
    /\ UNCHANGED <<data, encoded, reencoded, special_chars>>

NextUtils == SplitByDelimiter \/ EscapeString \/ UnescapeString \/ ParsePrimitive \/ ParseKeySchema

SpecUtils == InitUtils /\ [][NextUtils]_vars

\* ---------------------------------------------------------------------
\* Properties
\* ---------------------------------------------------------------------
Encoded == pc \notin {"start", "raised"}
Done == pc \in {"decoded", "failed", "reencoded"}

\* sub occurs in text
Occurs(sub, text) == \E i \in 1..(Len(text) - Len(sub) + 1) : SubSeq(text, i, i + Len(sub) - 1) = sub

\* every element is an object and all elements have one ordered key list
SameShape(xs) ==
    /\ \A i \in 1..Len(xs) : IsDict(xs[i])
    /\ \A i, j \in 1..Len(xs) : DictKeys(xs[i]) = DictKeys(xs[j])

UniformList(v) == IsList(v) /\ v[2] # <<>> /\ SameShape(v[2])

\* the values of the rows at key k
FieldValues(arr, k) == [i \in 1..Len(arr) |-> DictGet(arr[i][2], k)]

\* C1: loads(dumps(v)) = v for every value, key order and leaf kinds included
C1_RoundTrip == Done => decoded = data

\* C2: dumps(loads(dumps(v))) = dumps(v)
C2_Reencode == pc = "reencoded" => reencoded = encoded

\* the text has the tabular form {@keys#N|rows} / the plain-array form [...]
TabularForm(text, n) ==
    /\ Len(text) >= 3 /\ text[1] = "{" /\ text[2] = "@" /\ text[Len(text)] = "}"
    /\ Occurs(<<"#">> \o IntToStr(n) \o <<"|">>, text)
PlainArrayForm(text) == Len(text) >= 2 /\ text[1] = "[" /\ text[Len(text)] = "]"

\* C3: a non-empty list is written in tabular form iff all its elements are
\* objects with one ordered key list, and in plain-array form otherwise
C3_TabularIffUniform ==
    (Encoded /\ IsList(data) /\ data[2] # <<>>) =>
        /\ TabularForm(encoded, Len(data[2])) <=> SameShape(data[2])
        /\ PlainArrayForm(encoded) <=> ~SameShape(data[2])

\* two objects with the same keys in another order are written as a plain array
C3_Witness ==
    /\ pc = "encoded" /\ IsList(data) /\ Len(data[2]) = 2
    /\ IsDict(data[2][1]) /\ IsDict(data[2][2])
    /\ DictKeys(data[2][1]) # DictKeys(data[2][2])
    /\ {DictKeys(data[2][1])[j] : j \in 1..Len(data[2][1][2])} = {DictKeys(data[2][2])[j] : j \in 1..Len(data[2][2][2])}
    /\ PlainArrayForm(encoded)

\* the header entry and the row cell of key k as C4 states them
FactoredField(arr, k) == SameShape(FieldValues(arr, k))
HeaderEntry(arr, k) ==
    IF FactoredField(arr, k)
    THEN LET sub == DictKeys(FieldValues(arr, k)[1])
         IN format_key(k) \o <<"(", "@">> \o Join([j \in 1..Len(sub) |-> format_key(sub[j])], <<",">>) \o <<")">>
    ELSE format_key(k)
RowCell(arr, r, k) ==
    LET v == DictGet(arr[r][2], k)
    IN IF FactoredField(arr, k)
       THEN <<"{">> \o Join([j \in 1..Len(v[2]) |-> serialize_value(v[2][j][2])], <<",">>) \o <<"}">>
       ELSE serialize_value(v)
TabularText(arr) ==
    LET keys == DictKeys(arr[1])
    IN <<"{", "@">> \o Join([i \in 1..Len(keys) |-> HeaderEntry(arr, keys[i])], <<",">>)
       \o <<"#">> \o IntToStr(Len(arr)) \o <<"|">>
       \o Join([r \in 1..Len(arr) |-> Join([i \in 1..Len(keys) |-> RowCell(arr, r, keys[i])], <<",">>)], <<"|">>)
       \o <<"}">>

\* C4: in the tabular text a key carries a nested schema k(@...) and its cells
\* are values-only {...} iff every row's value at k is an object and these
\* objects have one ordered key list; otherwise the key is bare and the cell
\* is the normal encoding of the value
C4_NestedSchemaIffUniformField == (Encoded /\ UniformList(data)) => encoded = TabularText(data[2])

\* two rows whose field holds objects with different keys: the key stays bare
C4_Witness ==
    /\ pc = "encoded" /\ UniformList(data) /\ Len(data[2]) = 2
    /\ \E k \in {DictKeys(data[2][1])[i] : i \in 1..Len(data[2][1][2])} :
          /\ \A r \in 1..2 : IsDict(DictGet(data[2][r][2], k))
          /\ ~FactoredField(data[2], k)
          /\ ~Occurs(<<"(">>, encoded)

\* a factored field whose sub-objects hold a field that is itself an object
\* with one ordered key list in every row
DeepField(arr, k) ==
    /\ FactoredField(arr, k)
    /\ \E j \in 1..Len(FieldValues(arr, k)[1][2]) :
          FactoredField(FieldValues(arr, k), DictKeys(FieldValues(arr, k)[1])[j])
DeepList(v) == UniformList(v) /\ \E i \in 1..Len(v[2][1][2]) : DeepField(v[2], DictKeys(v[2][1])[i])

\* the number of unclosed ( before position i
ParenDepth(text, i) ==
    Cardinality({j \in 1..i : text[j] = "("}) - Cardinality({j \in 1..i : text[j] = ")"})

\* C5 as stated: the inner schema is declared inside the outer one in the
\* header, a(@b(@c)), and the rows hold values only, without any @ marker
C5_RecursiveFactoring ==
    (Encoded /\ DeepList(data)) =>
        /\ \E i \in 1..Len(encoded) : encoded[i] = "(" /\ ParenDepth(encoded, i) = 2
        /\ ~Occurs(<<"{", "@">>, Tail(encoded))

\* the characters C6 lists
QuoteChars == {",", "|", "@", "#", "{", "}", "[", "]", "(", ")", DQ, SP, TB, NL, CR}
MustQuote(s) ==
    \/ s = <<>>
    \/ s \in {<<"t", "r", "u", "e">>, <<"f", "a", "l", "s", "e">>, <<"n", "u", "l", "l">>}
    \/ IsSpace(s[1]) \/ IsSpace(s[Len(s)])
    \/ IsFloatText(s)
    \/ \E i \in 1..Len(s) : s[i] \in QuoteChars

\* C6: a string is written in double quotes, its content escaped, iff it is
\* empty, a reserved word, has boundary whitespace, parses as a number or
\* holds a structural character; otherwise it is written verbatim
C6_QuotedIffNeeded ==
    (Encoded /\ Tag(data) = "str") =>
        encoded = IF MustQuote(data[2]) THEN <<DQ>> \o escape_string(data[2]) \o <<DQ>> ELSE data[2]

\* a number-like string is written in quotes
C6_Witness ==
    /\ pc = "encoded" /\ Tag(data) = "str" /\ data[2] # <<>>
    /\ IsFloatText(data[2]) /\ \A i \in 1..Len(data[2]) : data[2][i] \notin QuoteChars
    /\ encoded = <<DQ>> \o data[2] \o <<DQ>>

\* an integer, a float or a string that parses as a number
NumberLike(v) == Tag(v) \in {"int", "float"} \/ (Tag(v) = "str" /\ v[2] # <<>> /\ IsFloatText(v[2]))

\* C7: a number-like string comes back as the same string, an integer as the
\* same integer, a float as a float, at the top level, as the field of an
\* object and as the cell of a tabular row
C7_NumberTypingSurvives ==
    Done =>
        /\ NumberLike(data) => (Tag(decoded) = Tag(data) /\ (Tag(data) # "float" => decoded = data))
        /\ (IsDict(data) /\ data[2] # <<>>) =>
              \A i \in 1..Len(data[2]) :
                 NumberLike(data[2][i][2]) =>
                    /\ IsDict(decoded) /\ Len(decoded[2]) = Len(data[2])
                    /\ Tag(decoded[2][i][2]) = Tag(data[2][i][2])
                    /\ Tag(data[2][i][2]) # "float" => decoded[2][i][2] = data[2][i][2]
        /\ UniformList(data) =>
              \A r \in 1..Len(data[2]) : \A i \in 1..Len(data[2][r][2]) :
                 NumberLike(data[2][r][2][i][2]) =>
                    /\ IsList(decoded) /\ Len(decoded[2]) = Len(data[2])
                    /\ IsDict(decoded[2][r]) /\ Len(decoded[2][r][2]) = Len(data[2][r][2])
                    /\ decoded[2][r][2][i][2] = data[2][r][2][i][2]

StructuralKeyChars == {",", "|", "@", SP, "(", ")"}
HasCharIn(s, chars) == \E i \in 1..Len(s) : s[i] \in chars

\* C8: an object with keys holding a comma, pipe, @, space or parenthesis is
\* written with these keys quoted and decodes to an object with the same keys
C8_StructuralKeysRoundTrip ==
    (Done /\ IsDict(data) /\ \E i \in 1..Len(data[2]) : HasCharIn(data[2][i][1], StructuralKeyChars)) =>
        /\ \A i \in 1..Len(data[2]) :
              HasCharIn(data[2][i][1], StructuralKeyChars) => Occurs(Quoted(data[2][i][1]), encoded)
        /\ IsDict(decoded) /\ DictKeys(decoded) = DictKeys(data)

\* C9: an object with a # in a key decodes without error to that object
C9_HashInKeyRoundTrip ==
    (Done /\ IsDict(data) /\ \E i \in 1..Len(data[2]) : Contains(data[2][i][1], "#")) =>
        ~IsError(decoded) /\ decoded = data

\* a uniform list with a factored field whose name, or one of whose
\* sub-object keys, needs quoting
QuotedSchemaList(v) ==
    /\ UniformList(v)
    /\ \E i \in 1..Len(v[2][1][2]) :
          LET k == DictKeys(v[2][1])[i]
          IN /\ FactoredField(v[2], k)
             /\ FieldValues(v[2], k)[1][2] # <<>>
             /\ \/ HasCharIn(k, {",", "|", "(", ")", SP})
                \/ \E j \in 1..Len(FieldValues(v[2], k)[1][2]) :
                      HasCharIn(DictKeys(FieldValues(v[2], k)[1])[j], {",", "|", "(", ")"})

\* C10: such a list round-trips, the nested keys restored exactly
C10_QuotedNestedKeysRoundTrip == (Done /\ QuotedSchemaList(data)) => decoded = data

\* a string that holds a backslash
HasBackslash(v) == Tag(v) = "str" /\ Contains(v[2], BS)
\* a list or an object of two or more elements or fields, one of them such a string
BackslashAmongOthers(v) ==
    \/ IsList(v) /\ Len(v[2]) >= 2 /\ \E i \in 1..Len(v[2]) : HasBackslash(v[2][i])
    \/ IsDict(v) /\ Len(v[2]) >= 2 /\ \E i \in 1..Len(v[2]) : HasBackslash(v[2][i][2])

\* C11: a string with backslashes anywhere, as its last character included,
\* round-trips as an element or a field next to other elements or fields
C11_BackslashRoundTrip == (Done /\ BackslashAmongOthers(data)) => decoded = data

\* a key as C12 words it: in quotes, escaped, iff it needs quoting
KeyText(k) == IF MustQuote(k) THEN <<DQ>> \o escape_string(k) \o <<DQ>> ELSE k

\* C12: an empty object is written {@}; any other object is written {@, its
\* keys in insertion order joined by commas, |, the encodings of its values
\* in the same order joined by commas, }, and nothing else: no #count
C12_ObjectText ==
    (Encoded /\ IsDict(data)) =>
        encoded = IF data[2] = <<>> THEN <<"{", "@", "}">>
                  ELSE <<"{", "@">> \o Join([i \in 1..Len(data[2]) |-> KeyText(data[2][i][1])], <<",">>)
                       \o <<"|">> \o Join([i \in 1..Len(data[2]) |-> dumps(data[2][i][2])], <<",">>)
                       \o <<"}">>

\* an object of two fields, one key in quotes, written without any #
C12_Witness ==
    /\ pc = "encoded" /\ IsDict(data) /\ Len(data[2]) = 2
    /\ \E i \in 1..2 : MustQuote(data[2][i][1]) /\ Occurs(<<DQ>> \o escape_string(data[2][i][1]) \o <<DQ>>, encoded)
    /\ \A i \in 1..2 : ~Contains(data[2][i][1], "#")
    /\ SubSeq(encoded, 1, 2) = <<"{", "@">> /\ ~Contains(encoded, "#")

\* what follows the header of a table of N rows under the keys K: #N, then
\* the N rows in array order, each the |K| cells in K's order
CountAndRows(arr) ==
    LET K == DictKeys(arr[1])
    IN <<"#">> \o IntToStr(Len(arr)) \o <<"|">>
       \o Join([r \in 1..Len(arr) |-> Join([i \in 1..Len(K) |-> RowCell(arr, r, K[i])], <<",">>)], <<"|">>)
       \o <<"}">>

\* C13: a uniform array of N objects is written as one header, #N with N the
\* number of elements, and exactly N rows separated by |, each of |K|
\* comma-separated cells in K's order
C13_HeaderCountRows ==
    (Encoded /\ UniformList(data)) =>
        LET K == DictKeys(data[2][1])
            rest == CountAndRows(data[2])
            head == Len(encoded) - Len(rest)
        IN /\ head >= 2
           /\ SubSeq(encoded, head + 1, Len(encoded)) = rest
           /\ SubSeq(encoded, 1, head)
                 = <<"{", "@">> \o Join([i \in 1..Len(K) |-> HeaderEntry(data[2], K[i])], <<",">>)

\* two rows of two plain fields: {@a,b#2|1,2|1,2}
C13_Witness ==
    /\ pc = "encoded" /\ UniformList(data) /\ Len(data[2]) = 2 /\ Len(data[2][1][2]) = 2
    /\ \A r \in 1..2 : \A i \in 1..2 : Tag(data[2][r][2][i][2]) = "int"
    /\ Occurs(<<"#", "2", "|">>, encoded)
    /\ Cardinality({i \in 1..Len(encoded) : encoded[i] = "|"}) = 2
    /\ Cardinality({i \in 1..Len(encoded) : encoded[i] = ","}) = 3

RECURSIVE WellShaped(_, _)
\* the items fit the schema: as many items as names, a group wherever the
\* name has nested keys, and that group fits them
WellShaped(schema, items) ==
    /\ Len(items) = Len(schema)
    /\ \A i \in 1..Len(schema) :
          schema[i][2] # <<>> => (items[i][1] = "grp" /\ WellShaped(schema[i][2], items[i][2]))

RECURSIVE Expand(_, _)
\* the object a row token stands for: the names of the schema in order, the
\* i-th value the decoding of the i-th item, expanded again under nested keys
Expand(schema, items) ==
    VDict([i \in 1..Len(schema) |->
             <<schema[i][1],
               IF schema[i][2] = <<>> THEN parse_value(ItemText(items[i]))
               ELSE Expand(schema[i][2], items[i][2])>>])

\* C14: under a header key a(@S) the row token {t1,..,tn} decodes to the
\* object with the names of S as its keys, in order, the i-th value the
\* decoding of ti by the normal dispatch (10001 an integer, "10001" a
\* string), expanded again where a name of S has nested keys of its own
C14_SchemaExpansion ==
    Done =>
        \A sch \in SchemaTrees, c \in SchemaCounts, items \in CellContents :
            (encoded = SchemaText(sch, c, items) /\ WellShaped(sch, items)) =>
                decoded = IF c = <<>> THEN D1(<<"a">>, Expand(sch, items))
                          ELSE VList(<<D1(<<"a">>, Expand(sch, items))>>)

\* C15: in a keyed-object text every row, an empty one included, must hold
\* as many comma-separated tokens as the header has keys; if one does not,
\* loads fails with a field-count mismatch (checked on the texts that hold
\* at least one row that is not empty)
C15_FieldCountMismatch ==
    Done =>
        \A k \in FlatKeys, c \in Counts, rows \in FlatRowSeqs :
            (/\ encoded = KeyedText(k, c, rows)
             /\ \E r \in 1..Len(rows) : rows[r] # <<>>
             /\ \E r \in 1..Len(rows) : Len(rows[r]) # Len(k)) =>
                decoded = VError("Field count mismatch")

\* C16: under a header that declares #N loads returns a list only if the
\* text holds N rows, and then a list of N objects; with any other number of
\* rows, each of the right length, loads fails with a row-count mismatch
\* (checked on the texts that hold at least one row that is not empty)
C16_RowCountMismatch ==
    Done =>
        \A k \in FlatKeys, c \in Counts \ {<<>>}, rows \in FlatRowSeqs :
            (encoded = KeyedText(k, c, rows) /\ \E r \in 1..Len(rows) : rows[r] # <<>>) =>
                /\ IsList(decoded) => (Len(rows) = IntOf(Tail(c)) /\ Len(decoded[2]) = IntOf(Tail(c)))
                /\ (Len(rows) # IntOf(Tail(c)) /\ \A r \in 1..Len(rows) : Len(rows[r]) = Len(k)) =>
                      decoded = VError("Row count mismatch")

\* C17: a cell under a key with k nested keys whose interior holds another
\* number of tokens, none included, makes loads fail with a schema mismatch
C17_SchemaMismatch ==
    Done =>
        \A sch \in SchemaTrees, c \in SchemaCounts, items \in CellContents :
            (encoded = SchemaText(sch, c, items) /\ Len(items) # Len(sch)) =>
                decoded = VError("Schema mismatch")

\* a token that opens with { without closing with }, or with [ without ]
Mismatched(t) ==
    /\ t # <<>>
    /\ \/ t[1] = "{" /\ t[Len(t)] # "}"
       \/ t[1] = "[" /\ t[Len(t)] # "]"

\* the cells of the rows after the header of a keyed object's content
CellsOf(content) ==
    LET parts == split_by_delimiter(Tail(content), "|")
    IN UNION {{split_by_delimiter(parts[r], ",")[i] : i \in 1..Len(split_by_delimiter(parts[r], ","))}
                 : r \in 2..Len(parts)}

RECURSIVE HasMismatch(_)
\* the text, or a token that is dispatched while it is decoded (an element of
\* an array or of a brace list, a cell under keys without nested schemas),
\* is such a token
HasMismatch(raw) ==
    LET t == Strip(raw)
        content == Strip(Interior(t))
        segs == split_by_delimiter(content, ",")
    IN \/ Mismatched(t)
       \/ /\ Len(t) >= 2 /\ t[1] = "[" /\ t[Len(t)] = "]"
          /\ \E i \in 1..Len(segs) : HasMismatch(segs[i])
       \/ /\ Len(t) >= 2 /\ t[1] = "{" /\ t[Len(t)] = "}" /\ ~StartsWith(content, "@")
          /\ \E i \in 1..Len(segs) : HasMismatch(segs[i])
       \/ /\ Len(t) >= 2 /\ t[1] = "{" /\ t[Len(t)] = "}" /\ StartsWith(content, "@")
          /\ ~Contains(content, "(")
          /\ \E cell \in CellsOf(content) : HasMismatch(cell)

RECURSIVE ErrorFree(_)
\* no error stands in for a part of the value
ErrorFree(v) ==
    /\ ~IsError(v)
    /\ IsList(v) => \A i \in 1..Len(v[2]) : ErrorFree(v[2][i])
    /\ IsDict(v) => \A i \in 1..Len(v[2]) : ErrorFree(v[2][i][2])

\* C18: a text, or a token dispatched at any depth, that opens with { or [
\* and does not close with the matching bracket makes loads fail, and what
\* loads returns is never a value with a failed part in it
C18_MalformedBrackets ==
    Done =>
        /\ HasMismatch(encoded) => (pc = "failed" /\ IsError(decoded))
        /\ pc # "failed" => ErrorFree(decoded)

\* the text is well bracketed, an element inside it is not, and loads failed
C18_Witness ==
    /\ pc = "failed" /\ IsError(decoded)
    /\ HasMismatch(encoded) /\ ~Mismatched(Strip(encoded))

\* the scanner ends inside quotes or with a bracket depth other than zero
Unbalanced(text) ==
    LET st == ScanFrom(ScanInit, text, 1, ",")
    IN st.in_quotes \/ st.depth_curly # 0 \/ st.depth_square # 0 \/ st.depth_paren # 0

\* C19: the scanner returns segments for a text with unbalanced brackets or
\* an unterminated quote, and loads of such a text fails
C19_UnbalancedFails ==
    (Done /\ Unbalanced(encoded)) =>
        /\ Len(split_by_delimiter(encoded, ",")) >= 0 /\ Len(split_by_delimiter(encoded, "|")) >= 0
        /\ pc = "failed" /\ IsError(decoded)

RECURSIVE OutsideModel(_)
\* a non-finite number or a value of an unknown type, here or anywhere inside
OutsideModel(v) ==
    \/ Tag(v) = "other"
    \/ IsNonFinite(v)
    \/ IsList(v) /\ \E i \in 1..Len(v[2]) : OutsideModel(v[2][i])
    \/ IsDict(v) /\ \E i \in 1..Len(v[2]) : OutsideModel(v[2][i][2])

\* C20: dumps of a value outside the value model fails with the
\* unsupported-type error and returns no text
C20_UnsupportedRejected ==
    (pc # "start" /\ OutsideModel(data)) => (pc = "raised" /\ encoded = VError("Cannot serialize type"))

\* the content of a brace pair, trimmed
BraceContent(text) == Strip(Interior(Strip(text)))

\* a keyed-object text: a brace pair whose content is @ followed by a header
KeyedForm(text) ==
    /\ StartsWith(Strip(text), "{") /\ EndsWith(Strip(text), "}")
    /\ Len(Strip(text)) >= 2
    /\ Len(BraceContent(text)) > 1
    /\ Head(BraceContent(text)) = "@"

\* the header and the value-rows the scanner finds after the @
HeaderAndRows(text) == split_by_delimiter(Tail(BraceContent(text)), "|")

\* the header names its keys plainly, each once
PlainHeader(header) ==
    /\ ~Contains(header, DQ) /\ ~Contains(header, "(") /\ ~Contains(header, "#")
    /\ \A i, j \in 1..Len(split_by_delimiter(header, ",")) :
          split_by_delimiter(header, ",")[i] = split_by_delimiter(header, ",")[j] => i = j

\* C21: whenever loads returns for a keyed-object text, it returns a list of
\* objects exactly when the header declares a row count or more than one
\* value-row follows the header; with no count and one value-row it returns one
\* object, whose keys come in the header's order
C21_ListIffCountOrRows ==
    (Done /\ KeyedForm(encoded) /\ ~IsError(decoded)) =>
        LET header == HeaderAndRows(encoded)[1]
            rows == Len(HeaderAndRows(encoded)) - 1
            declared == Contains(header, "#")
        IN /\ IsList(decoded) <=> (declared \/ rows > 1)
           /\ IsList(decoded) => \A i \in 1..Len(decoded[2]) : IsDict(decoded[2][i])
           /\ (~declared /\ rows = 1) =>
                 /\ IsDict(decoded)
                 /\ PlainHeader(header) => DictKeys(decoded) = split_by_delimiter(header, ",")

\* two rows and no count were read as a list of two objects
C21_Witness ==
    /\ pc = "decoded" /\ KeyedForm(encoded)
    /\ ~Contains(HeaderAndRows(encoded)[1], "#")
    /\ Len(HeaderAndRows(encoded)) = 3
    /\ IsList(decoded) /\ Len(decoded[2]) = 2

\* a brace pair
BracePair(text) ==
    /\ Len(Strip(text)) >= 2
    /\ StartsWith(Strip(text), "{") /\ EndsWith(Strip(text), "}")

\* C22: of the brace pairs only the one whose content is exactly @ is the empty
\* object: loads of {@} returns the empty object, and loads of a brace pair
\* with empty or whitespace-only content raises
C22_OnlySentinelIsEmpty ==
    (Done /\ BracePair(encoded)) =>
        /\ BraceContent(encoded) = <<"@">> => decoded = VDict(<<>>)
        /\ BraceContent(encoded) = <<>> => IsError(decoded)

\* calling again with the argument of an earlier call gives what that call
\* gave: right after the call, and dumps of the first value again after the
\* calls that followed it
Repeatable ==
    /\ pc \in {"encoded", "raised", "reencoded"} => dumps(data) = encoded
    /\ pc \in {"decoded", "failed"} => loads(encoded) = decoded
    /\ pc = "reencoded" => dumps(decoded) = reencoded

\* no call writes its argument or the module-level set, and dumps of a value
\* equal to the first one gives the text of the first call
Frame ==
    /\ special_chars' = special_chars
    /\ data' = data
    /\ pc # "start" => encoded' = encoded
    /\ pc = "decoded" => decoded' = decoded
    /\ (pc = "decoded" /\ decoded = data) => reencoded' = encoded

\* C23: through any sequence of dumps and loads calls, a call leaves its
\* argument and the module-level SPECIAL_CHARS as they were, and repeating a
\* call with an equal argument gives the equal result or the same error
C23_CallsArePure == [](Repeatable /\ special_chars = SPECIAL_CHARS) /\ [][Frame]_vars

\* a string quoted for a character of SPECIAL_CHARS was dumped, loaded and
\* dumped again to the same text
C23_Witness ==
    /\ pc = "reencoded" /\ decoded = data /\ reencoded = encoded
    /\ Tag(data) = "str" /\ \E i \in 1..Len(data[2]) : data[2][i] \in SPECIAL_CHARS
    /\ special_chars = SPECIAL_CHARS

RECURSIVE EscapedAt(_, _)
\* text[i] is the character a backslash right before it escapes
EscapedAt(text, i) == i > 1 /\ text[i - 1] = BS /\ ~EscapedAt(text, i - 1)

\* the scanner's locals when it comes to text[i], and after it
ScanBefore(text, i, d) == ScanFrom(ScanInit, SubSeq(text, 1, i - 1), 1, d)
ScanAfter(text, i, d) == ScanStep(ScanBefore(text, i, d), text[i], d)

Counters(st) == <<st.depth_curly, st.depth_square, st.depth_paren>>

\* the scanner closes a segment at text[i]
SplitsAt(text, i, d) == Len(ScanAfter(text, i, d).result) = Len(ScanBefore(text, i, d).result) + 1

\* C24: scanning left to right, split_by_delimiter starts a new segment at a
\* character exactly when the character is the delimiter, is not escaped by a
\* backslash right before it, the inside-quotes flag is off and the three
\* bracket counters are zero; an escaped character, and a character inside
\* quotes, leaves the counters alone and leaves the quote flag alone unless it
\* is the unescaped closing quote
C24_SplitOnlyAtStructuralDelimiter ==
    pc = "split" =>
        LET d == reencoded[1]
            cuts == {i \in 1..Len(encoded) : SplitsAt(encoded, i, d)}
        IN /\ \A i \in 1..Len(encoded) :
                 LET before == ScanBefore(encoded, i, d)
                     after == ScanAfter(encoded, i, d)
                     escaped == EscapedAt(encoded, i)
                 IN /\ before.escape_next = escaped
                    /\ SplitsAt(encoded, i, d) <=>
                          /\ encoded[i] = d
                          /\ ~escaped
                          /\ ~before.in_quotes
                          /\ Counters(before) = <<0, 0, 0>>
                    /\ ~SplitsAt(encoded, i, d) => after.result = before.result
                    /\ (escaped \/ before.in_quotes) => Counters(after) = Counters(before)
                    /\ escaped => after.in_quotes = before.in_quotes
                    /\ (before.in_quotes /\ ~escaped) => (after.in_quotes <=> encoded[i] # DQ)
           /\ Len(decoded[2]) =
                 Cardinality(cuts) + IF \E i \in 1..Len(encoded) : \A c \in cuts : c < i THEN 1 ELSE 0

\* a delimiter inside quotes and a delimiter after the closing quote: only the
\* second one splits
C24_Witness ==
    /\ pc = "split" /\ reencoded = <<",">>
    /\ encoded = <<DQ, ",", DQ, ",">>
    /\ decoded = <<"segments", << <<DQ, ",", DQ>> >> >>

\* C25: for every string over backslash, double quote, newline, carriage
\* return, tab and the letters n, r, t, unescape_string gives back what
\* escape_string was given; a backslash followed by the letter n comes back as
\* those two characters
C25_EscapeRoundTrip ==
    /\ pc = "unescaped" => decoded = VStr(encoded)
    /\ pc = "escaped" => unescape_string(reencoded) = encoded

\* backslash, n was escaped to backslash, backslash, n and came back
C25_Witness ==
    /\ pc = "unescaped"
    /\ encoded = <<BS, "n">>
    /\ reencoded = <<BS, BS, "n">>
    /\ decoded = VStr(<<BS, "n">>)

\* wrapped in a pair of double quotes, the closing one not escaped
WrappedInQuotes(t) ==
    /\ Len(t) >= 2
    /\ t[1] = DQ /\ t[Len(t)] = DQ
    /\ ~EscapedAt(t, Len(t))

HasPointOrExponent(t) == Contains(t, ".") \/ Contains(t, "e") \/ Contains(t, "E")

\* C26: parse_primitive never raises and reads the trimmed token in this
\* order: true, false and null are the boolean or null; else a token wrapped
\* in a matching pair of unescaped double quotes is its unescaped interior;
\* else a token that parses as a number is an integer when it has neither a
\* point nor an exponent marker and a float otherwise; else, and when the
\* conversion fails, the token itself as a string
C26_PrimitiveOrder ==
    pc = "primitive" =>
        LET t == Strip(encoded)
        IN /\ ~IsError(decoded)
           /\ t = <<"t", "r", "u", "e">> => decoded = VBool(TRUE)
           /\ t = <<"f", "a", "l", "s", "e">> => decoded = VBool(FALSE)
           /\ t = <<"n", "u", "l", "l">> => decoded = VNull
           /\ (t \notin ReservedWords /\ WrappedInQuotes(t)) =>
                 decoded = VStr(unescape_string(Interior(t)))
           /\ (t \notin ReservedWords /\ ~WrappedInQuotes(t)) =>
                 /\ ~looks_like_number(t) => decoded = VStr(t)
                 /\ looks_like_number(t) =>
                       \/ decoded = VStr(t)
                       \/ Tag(decoded) = "int" /\ ~HasPointOrExponent(t)
                       \/ Tag(decoded) = "float" /\ HasPointOrExponent(t)

\* C27: parse_key_schema puts quoting before schema syntax: a token wrapped in
\* double quotes is (its unescaped interior, no schema) even when it holds a
\* parenthesis; an unquoted token without ( is (the token, no schema); any
\* other token is split at its first ( into the name and, one leading @
\* stripped, the scanner's comma split of the nested key tokens, and is an error
\* when it does not end with )
C27_QuotingBeforeSchema ==
    pc = "key" =>
        LET t == Strip(encoded)
            at == IndexOf(t, "(")
            prefix == Strip(Slice(t, 1, at - 1))
            inner == Strip(Slice(t, at + 1, Len(t) - 1))
        IN IF WrappedInQuotes(t)
           THEN decoded = [name |-> unescape_string(Interior(t)), schema |-> NoSchema, err |-> FALSE]
           ELSE IF ~Contains(t, "(")
           THEN decoded = [name |-> t, schema |-> NoSchema, err |-> FALSE]
           ELSE IF ~EndsWith(t, ")")
           THEN decoded.err
           ELSE /\ ~decoded.err
                /\ decoded.name = IF WrappedInQuotes(prefix) THEN unescape_string(Interior(prefix)) ELSE prefix
                /\ decoded.schema =
                      Schema(split_by_delimiter(IF StartsWith(inner, "@") THEN Tail(inner) ELSE inner, ","))

RECURSIVE StoredAsParsed(_, _, _)
\* obj holds the fields of the key tokens under the names parse_key_schema
\* gives them, and under a token with nested keys the brace group of the cell
\* was expanded into an object that holds its fields the same way
StoredAsParsed(tokens, cells, obj) ==
    /\ IsDict(obj)
    /\ DictKeys(obj) = [i \in 1..Len(tokens) |-> parse_key_schema(tokens[i]).name]
    /\ Len(cells) = Len(tokens)
    /\ \A i \in 1..Len(tokens) :
          (/\ SchemaIsTruthy(parse_key_schema(tokens[i]).schema)
           /\ BracePair(cells[i])
           /\ BraceContent(cells[i]) # <<>>) =>
              StoredAsParsed(parse_key_schema(tokens[i]).schema[2],
                             split_by_delimiter(BraceContent(cells[i]), ","),
                             obj[2][i][2])

\* the rows of a keyed-object text that hold something
FilledRows(text) == SelectSeq(Tail(HeaderAndRows(text)), LAMBDA row : Strip(row) # <<>>)

\* C28: whenever loads returns for a keyed-object text, every field of every
\* object it built, at the header and in every nested schema list, is stored
\* under the name parse_key_schema gives its key token, and a field whose key
\* declares nested keys holds the expansion of its cell
C28_StoredNameIsParsedName ==
    (Done /\ KeyedForm(encoded) /\ ~IsError(decoded)) =>
        LET tokens == parse_keys(HeaderAndRows(encoded)[1]).keys
        IN IF IsList(decoded)
           THEN \A r \in 1..Len(decoded[2]) :
                   StoredAsParsed(tokens, split_by_delimiter(FilledRows(encoded)[r], ","), decoded[2][r])
           ELSE StoredAsParsed(tokens, split_by_delimiter(HeaderAndRows(encoded)[2], ","), decoded)

\* C29: a non-empty uniform array of N objects, one object and objects without
\* keys included, is decoded from its own encoding as a list of exactly N
\* objects: not one object, not a shorter list, not an error
C29_UniformArrayKeepsCount ==
    (Done /\ UniformList(data)) =>
        /\ IsList(decoded)
        /\ Len(decoded[2]) = Len(data[2])
        /\ \A i \in 1..Len(decoded[2]) : IsDict(decoded[2][i])

\* the scanner's locals after the whole of text
ScanWhole(text, d) == ScanFrom(ScanInit, text, 1, d)

\* no bracket counter is below zero after any prefix of text
NeverBelowZero(text, d) ==
    \A i \in 1..Len(text) :
        /\ ScanAfter(text, i, d).depth_curly >= 0
        /\ ScanAfter(text, i, d).depth_square >= 0
        /\ ScanAfter(text, i, d).depth_paren >= 0

\* C30: the scanner run over the whole of what dumps wrote never takes a
\* bracket counter below zero and ends outside quotes, with no escape pending
\* and the three counters at zero
C30_OutputWellFormedForScanner ==
    Encoded =>
        \A d \in {",", "|"} :
            /\ NeverBelowZero(encoded, d)
            /\ ~ScanWhole(encoded, d).in_quotes
            /\ ~ScanWhole(encoded, d).escape_next
            /\ Counters(ScanWhole(encoded, d)) = <<0, 0, 0>>

====
